---- MODULE Spec2Model ----
(***************************************************************************)
(* Model of backend/scripts/analyze_audio.py: the analysis pipeline        *)
(* analyze_audio and the functions it calls (detect_bpm, detect_key,       *)
(* estimate_genre, get_scale_recommendations).                             *)
(*                                                                         *)
(* Units.  Reals of the program are modelled as scaled integers:           *)
(*   - chroma and key-profile weights in hundredths (6.35 is 635);         *)
(*   - the zero crossing rate in hundredths (0.15 is 15);                  *)
(*   - the tempo estimate of the beat tracker in tenths of a BPM;          *)
(*   - spectral centroid and rolloff in Hz.                                *)
(* A Pearson correlation is kept exactly, as the pair (n, d) that stands   *)
(* for n / sqrt(d); d = 0 is numpy's nan.  Comparisons of correlations are *)
(* exact (arbitrary precision), so ties are real ties.                     *)
(***************************************************************************)
EXTENDS Integers, Sequences, FiniteSets

(***************************************************************************)
(* Bounds of the explored inputs.                                          *)
(***************************************************************************)
\* largest number of sounding pitch classes in a synthetic chroma vector
MaxNotes == 2
\* largest energy level of a sounding pitch class in a synthetic chroma vector
MaxLevel == 2

(***************************************************************************)
(* Static data.                                                            *)
(***************************************************************************)
SCALE_RECOMMENDATIONS ==
    [k \in {"C major", "C minor", "C# major", "Db major", "C# minor",
            "D major", "D minor", "D# major", "Eb major", "D# minor",
            "E major", "E minor", "F major", "F minor", "F# major",
            "Gb major", "F# minor", "G major", "G minor", "G# major",
            "Ab major", "G# minor", "A major", "A minor", "A# major",
            "Bb major", "A# minor", "B major", "B minor"} |->
     CASE k = "C major"  -> <<"C Major (Ionian)", "C Major Pentatonic", "A Minor Pentatonic", "A Natural Minor">>
       [] k = "C minor"  -> <<"C Minor (Aeolian)", "C Minor Pentatonic", "C Dorian", "C Blues Scale">>
       [] k = "C# major" -> <<"C# Major (Ionian)", "C# Major Pentatonic", "A# Minor Pentatonic">>
       [] k = "Db major" -> <<"Db Major (Ionian)", "Db Major Pentatonic", "Bb Minor Pentatonic">>
       [] k = "C# minor" -> <<"C# Minor (Aeolian)", "C# Minor Pentatonic", "C# Dorian">>
       [] k = "D major"  -> <<"D Major (Ionian)", "D Major Pentatonic", "B Minor Pentatonic", "D Mixolydian">>
       [] k = "D minor"  -> <<"D Minor (Aeolian)", "D Minor Pentatonic", "D Dorian", "D Blues Scale">>
       [] k = "D# major" -> <<"D# Major (Ionian)", "D# Major Pentatonic", "C Minor Pentatonic">>
       [] k = "Eb major" -> <<"Eb Major (Ionian)", "Eb Major Pentatonic", "C Minor Pentatonic">>
       [] k = "D# minor" -> <<"D# Minor (Aeolian)", "D# Minor Pentatonic", "D# Dorian">>
       [] k = "E major"  -> <<"E Major (Ionian)", "E Major Pentatonic", "C# Minor Pentatonic", "E Mixolydian">>
       [] k = "E minor"  -> <<"E Minor (Aeolian)", "E Minor Pentatonic", "E Dorian", "E Blues Scale">>
       [] k = "F major"  -> <<"F Major (Ionian)", "F Major Pentatonic", "D Minor Pentatonic", "F Lydian">>
       [] k = "F minor"  -> <<"F Minor (Aeolian)", "F Minor Pentatonic", "F Dorian", "F Blues Scale">>
       [] k = "F# major" -> <<"F# Major (Ionian)", "F# Major Pentatonic", "D# Minor Pentatonic">>
       [] k = "Gb major" -> <<"Gb Major (Ionian)", "Gb Major Pentatonic", "Eb Minor Pentatonic">>
       [] k = "F# minor" -> <<"F# Minor (Aeolian)", "F# Minor Pentatonic", "F# Dorian">>
       [] k = "G major"  -> <<"G Major (Ionian)", "G Major Pentatonic", "E Minor Pentatonic", "G Mixolydian">>
       [] k = "G minor"  -> <<"G Minor (Aeolian)", "G Minor Pentatonic", "G Dorian", "G Blues Scale">>
       [] k = "G# major" -> <<"G# Major (Ionian)", "G# Major Pentatonic", "F Minor Pentatonic">>
       [] k = "Ab major" -> <<"Ab Major (Ionian)", "Ab Major Pentatonic", "F Minor Pentatonic">>
       [] k = "G# minor" -> <<"G# Minor (Aeolian)", "G# Minor Pentatonic", "G# Dorian">>
       [] k = "A major"  -> <<"A Major (Ionian)", "A Major Pentatonic", "F# Minor Pentatonic", "A Mixolydian">>
       [] k = "A minor"  -> <<"A Minor (Aeolian)", "A Minor Pentatonic", "A Dorian", "A Blues Scale">>
       [] k = "A# major" -> <<"A# Major (Ionian)", "A# Major Pentatonic", "G Minor Pentatonic">>
       [] k = "Bb major" -> <<"Bb Major (Ionian)", "Bb Major Pentatonic", "G Minor Pentatonic">>
       [] k = "A# minor" -> <<"A# Minor (Aeolian)", "A# Minor Pentatonic", "A# Dorian">>
       [] k = "B major"  -> <<"B Major (Ionian)", "B Major Pentatonic", "G# Minor Pentatonic", "B Mixolydian">>
       [] k = "B minor"  -> <<"B Minor (Aeolian)", "B Minor Pentatonic", "B Dorian", "B Blues Scale">>]

\* the fallback of SCALE_RECOMMENDATIONS.get
DefaultScales == <<"Major Pentatonic", "Minor Pentatonic", "Blues Scale">>

\* Krumhansl-Schmuckler profiles, in hundredths
major_profile == <<635, 223, 348, 233, 438, 409, 252, 519, 239, 366, 229, 288>>
minor_profile == <<633, 268, 352, 538, 260, 353, 254, 475, 398, 269, 334, 317>>

pitch_classes == <<"C", "C#", "D", "D#", "E", "F", "F#", "G", "G#", "A", "A#", "B">>

\* range(12): the rotations tried by detect_key
NumRotations == 12

(***************************************************************************)
(* Strings: str.split() and the f-string of detect_key.                    *)
(***************************************************************************)
RECURSIVE SplitFrom(_, _, _, _)
\* scan s from position k; cur is the word being read, acc the words read
SplitFrom(s, k, cur, acc) ==
    IF k > Len(s)
    THEN IF cur = "" THEN acc ELSE Append(acc, cur)
    ELSE IF SubSeq(s, k, k) = " "
         THEN SplitFrom(s, k + 1, "", IF cur = "" THEN acc ELSE Append(acc, cur))
         ELSE SplitFrom(s, k + 1, cur \o SubSeq(s, k, k), acc)

\* key.split(): the maximal runs of non-blank characters
Split(s) == SplitFrom(s, 1, "", <<>>)

\* f'{pitch_classes[i]} major' and f'{pitch_classes[i]} minor' (i from 0)
KeyName(i, mode) == pitch_classes[i + 1] \o " " \o mode

\* a mutation of FormatKey: the word major is not dropped
FormatKey_keeps_major(key) ==
    LET key_parts == Split(key)
    IN  IF Len(key_parts) < 2 THEN "IndexError"
        ELSE IF key_parts[2] = "minor" THEN key_parts[1] \o "m"
        ELSE key

\* lines 161-165; "IndexError" when the key has fewer than two words
FormatKey(key) ==
    LET key_parts == Split(key)
    IN  IF Len(key_parts) < 2 THEN "IndexError"
        ELSE IF key_parts[2] = "minor" THEN key_parts[1] \o "m"
        ELSE key_parts[1]

\* a mutation of get_scale_recommendations: blanks are normalised before the
\* lookup
get_scale_recommendations_normalised(key) ==
    LET parts == Split(key)
        k == IF Len(parts) = 2 THEN parts[1] \o " " \o parts[2] ELSE key
    IN  IF k \in DOMAIN SCALE_RECOMMENDATIONS
        THEN SCALE_RECOMMENDATIONS[k]
        ELSE DefaultScales

\* lines 137-139
get_scale_recommendations(key) ==
    IF key \in DOMAIN SCALE_RECOMMENDATIONS
    THEN SCALE_RECOMMENDATIONS[key]
    ELSE DefaultScales

(***************************************************************************)
(* detect_bpm: round(float(tempo)), Python's round-half-to-even.           *)
(***************************************************************************)
PyRound(tenths) ==
    LET q == tenths \div 10
        r == tenths % 10
    IN  IF r > 5 \/ (r = 5 /\ q % 2 = 1) THEN q + 1 ELSE q

\* a mutation of GenreRules: the tempo band 120..140 is tested first
GenreRules_tempo_first(spectral_centroid, spectral_rolloff, zero_crossing_rate, tempo) ==
    IF 120 < tempo /\ tempo <= 140 THEN "Rock"
    ELSE IF spectral_centroid > 3000 /\ zero_crossing_rate > 15
    THEN IF tempo > 140 THEN "Rock" ELSE "Metal"
    ELSE IF spectral_centroid < 1500
    THEN IF tempo < 100 THEN "Blues" ELSE "R&B"
    ELSE IF tempo > 160 THEN "Punk"
    ELSE IF tempo < 90 /\ spectral_rolloff < 3000 THEN "Jazz"
    ELSE IF 90 <= tempo /\ tempo <= 120 THEN "Pop"
    ELSE "Other"

(***************************************************************************)
(* estimate_genre, lines 117-134.                                          *)
(***************************************************************************)
GenreRules(spectral_centroid, spectral_rolloff, zero_crossing_rate, tempo) ==
    IF spectral_centroid > 3000 /\ zero_crossing_rate > 15
    THEN IF tempo > 140 THEN "Rock" ELSE "Metal"
    ELSE IF spectral_centroid < 1500
    THEN IF tempo < 100 THEN "Blues" ELSE "R&B"
    ELSE IF tempo > 160 THEN "Punk"
    ELSE IF tempo < 90 /\ spectral_rolloff < 3000 THEN "Jazz"
    ELSE IF 90 <= tempo /\ tempo <= 120 THEN "Pop"
    ELSE IF 120 < tempo /\ tempo <= 140 THEN "Rock"
    ELSE "Other"

(***************************************************************************)
(* Arbitrary-precision naturals: little-endian sequences of digits in base *)
(* 10^4, without leading zeros (zero is the empty sequence).  They carry   *)
(* the products that the exact comparison of two correlations needs.       *)
(***************************************************************************)
BigBase == 100 * 100

RECURSIVE BigOf(_)
BigOf(n) == IF n = 0 THEN <<>> ELSE <<n % BigBase>> \o BigOf(n \div BigBase)

RECURSIVE BigAddC(_, _, _)
BigAddC(a, b, c) ==
    IF a = <<>> /\ b = <<>>
    THEN IF c = 0 THEN <<>> ELSE <<c>>
    ELSE LET da == IF a = <<>> THEN 0 ELSE Head(a)
             db == IF b = <<>> THEN 0 ELSE Head(b)
             s  == da + db + c
         IN  <<s % BigBase>> \o BigAddC(IF a = <<>> THEN a ELSE Tail(a),
                                        IF b = <<>> THEN b ELSE Tail(b),
                                        s \div BigBase)

RECURSIVE BigMulDigit(_, _, _)
BigMulDigit(a, d, c) ==
    IF a = <<>>
    THEN IF c = 0 THEN <<>> ELSE <<c>>
    ELSE LET p == Head(a) * d + c
         IN  <<p % BigBase>> \o BigMulDigit(Tail(a), d, p \div BigBase)

RECURSIVE BigTrim(_)
BigTrim(a) ==
    IF a = <<>> THEN a
    ELSE IF a[Len(a)] = 0 THEN BigTrim(SubSeq(a, 1, Len(a) - 1))
    ELSE a

RECURSIVE BigMul(_, _)
BigMul(a, b) ==
    IF a = <<>> \/ b = <<>> THEN <<>>
    ELSE BigTrim(BigAddC(BigMulDigit(a, Head(b), 0),
                         IF Tail(b) = <<>> THEN <<>> ELSE <<0>> \o BigMul(a, Tail(b)),
                         0))

BigLess(a, b) ==
    \/ Len(a) < Len(b)
    \/ /\ Len(a) = Len(b)
       /\ \E k \in 1..Len(a) :
             /\ a[k] < b[k]
             /\ \A j \in (k + 1)..Len(a) : a[j] = b[j]

Abs(n) == IF n < 0 THEN -n ELSE n

(***************************************************************************)
(* numpy: np.roll and np.corrcoef(x, t)[0, 1] on vectors of length 12.     *)
(***************************************************************************)
\* a mutation of np_roll: the shift goes the other way
np_roll_left(p, i) == [k \in 1..Len(p) |-> p[((k - 1 + i) % Len(p)) + 1]]

\* np.roll(p, i): the element at index 0 moves to index i
np_roll(p, i) == [k \in 1..Len(p) |-> p[((k - 1 - i) % Len(p)) + 1]]

RECURSIVE SumSeq(_)
SumSeq(s) == IF s = <<>> THEN 0 ELSE Head(s) + SumSeq(Tail(s))

Dot(x, t) == SumSeq([k \in 1..Len(x) |-> x[k] * t[k]])

\* len(x)^2 times the covariance of x and t
Cov(x, t) == Len(x) * Dot(x, t) - SumSeq(x) * SumSeq(t)

\* The Pearson correlation Cov(x,t) / sqrt(Cov(x,x) * Cov(t,t)), kept as the
\* numerator n and the radicand d; d = 0 (a constant vector) is nan.
corrcoef(x, t) ==
    [n |-> Cov(x, t), d |-> BigMul(BigOf(Cov(x, x)), BigOf(Cov(t, t)))]

\* the initial best_correlation, -1
MinusOne == [n |-> -1, d |-> BigOf(1)]

IsNaN(c) == c.d = <<>>

\* a == b as reals (false when either is nan)
CorrEq(a, b) ==
    /\ ~IsNaN(a) /\ ~IsNaN(b)
    /\ (a.n > 0) = (b.n > 0)
    /\ (a.n < 0) = (b.n < 0)
    /\ BigMul(BigMul(BigOf(Abs(a.n)), BigOf(Abs(a.n))), b.d)
         = BigMul(BigMul(BigOf(Abs(b.n)), BigOf(Abs(b.n))), a.d)

\* a >= b as reals: a mutation of CorrGt
CorrGe(a, b) ==
    IF IsNaN(a) \/ IsNaN(b) THEN FALSE
    ELSE IF a.n >= 0 /\ b.n <= 0 THEN TRUE
    ELSE IF a.n <= 0 /\ b.n >= 0 THEN FALSE
    ELSE LET l == BigMul(BigMul(BigOf(Abs(a.n)), BigOf(Abs(a.n))), b.d)
             r == BigMul(BigMul(BigOf(Abs(b.n)), BigOf(Abs(b.n))), a.d)
         IN  IF a.n > 0 THEN ~BigLess(l, r) ELSE ~BigLess(r, l)

\* a > b as reals, the test of lines 89 and 96 (false when either is nan)
CorrGt(a, b) ==
    IF IsNaN(a) \/ IsNaN(b) THEN FALSE
    ELSE IF a.n >= 0 /\ b.n < 0 THEN TRUE
    ELSE IF a.n <= 0 /\ b.n >= 0 THEN FALSE
    ELSE LET l == BigMul(BigMul(BigOf(Abs(a.n)), BigOf(Abs(a.n))), b.d)
             r == BigMul(BigMul(BigOf(Abs(b.n)), BigOf(Abs(b.n))), a.d)
         IN  IF a.n > 0 THEN BigLess(r, l) ELSE BigLess(l, r)

(***************************************************************************)
(* Inputs: what the collaborators (librosa) deliver for one audio file.    *)
(***************************************************************************)
\* a reference profile rotated to tonal centre i, as a chroma vector
ProfileChroma == {np_roll(major_profile, r) : r \in 0..(NumRotations - 1)}
                   \cup {np_roll(minor_profile, r) : r \in 0..(NumRotations - 1)}

\* chroma vectors with at most MaxNotes sounding pitch classes
SyntheticChroma ==
    UNION {{[k \in 1..NumRotations |-> IF k \in S THEN l[k] ELSE 0] :
               l \in [S -> 1..MaxLevel]} :
           S \in {T \in SUBSET (1..NumRotations) : Cardinality(T) <= MaxNotes}}

\* constant chroma vectors (zero variance); level 0 is silence
UniformChroma == {[k \in 1..NumRotations |-> l] : l \in 0..MaxLevel}

\* tempo estimates of the beat tracker, in tenths of a BPM (0: no beat found)
TempoSet == {0, 895, 896, 900, 994, 995, 1000, 1200, 1204, 1205, 1206, 1215,
             1300, 1400, 1405, 1406, 1600, 1605, 1606, 1800}
CentroidSet == {1499, 1500, 3000, 3001}
RolloffSet == {2999, 3000}
ZcrSet == {15, 16}

\* summaries on both sides of every threshold of the rules
SpectralSweep ==
    [tempo : TempoSet, chroma : {np_roll(major_profile, 0)},
     centroid : CentroidSet, rolloff : RolloffSet, zcr : ZcrSet]

\* chroma vectors under the summary of the end-to-end example
\* (3500 Hz, 4000 Hz, 0.2, 130 BPM)
ChromaSweep ==
    [tempo : {1300}, chroma : ProfileChroma \cup SyntheticChroma \cup UniformChroma,
     centroid : {3500}, rolloff : {4000}, zcr : {20}]

Inputs == SpectralSweep \cup ChromaSweep

(***************************************************************************)
(* State of one run of the script.                                         *)
(***************************************************************************)
VARIABLES
    pc,                 \* position in analyze_audio and its callees
    inp,                \* what the collaborators deliver for the file
    calls,              \* the collaborator calls started so far, in order
    bpm, key, genre, scales,                       \* locals of analyze_audio
    chroma_mean, i, best_correlation, detected_key, \* locals of detect_key
    spectral_centroid, spectral_rolloff, zero_crossing_rate, \* estimate_genre
    returned            \* the values analyze_audio has returned

vars == <<pc, inp, calls, bpm, key, genre, scales, chroma_mean, i,
          best_correlation, detected_key, spectral_centroid, spectral_rolloff,
          zero_crossing_rate, returned>>

main_locals == <<bpm, key, genre, scales>>
key_locals == <<chroma_mean, i, best_correlation, detected_key>>
genre_locals == <<spectral_centroid, spectral_rolloff, zero_crossing_rate>>

\* Locals hold a placeholder of their type until the code assigns them.
Init ==
    /\ pc = "main"
    /\ inp = [tempo |-> 0, chroma |-> <<>>, centroid |-> 0, rolloff |-> 0, zcr |-> 0]
    /\ calls = <<>>
    /\ bpm = 0 /\ key = "" /\ genre = "" /\ scales = <<>>
    /\ chroma_mean = <<>> /\ i = 0 /\ best_correlation = MinusOne
    /\ detected_key = ""
    /\ spectral_centroid = 0 /\ spectral_rolloff = 0 /\ zero_crossing_rate = 0
    /\ returned = <<>>

\* str(e) of the exception a collaborator raised
ErrorOf(step) == step \o " failed"

\* a mutation of FailureResult: a partial result next to the error
FailureResult_partial(msg) == [success |-> FALSE, error |-> msg, bpm |-> bpm]

\* lines 180-184
FailureResult(msg) == [success |-> FALSE, error |-> msg]

\* lines 167-178
SuccessResult(b, k, g, s) ==
    [success |-> TRUE, bpm |-> b, key |-> k, genre |-> g, scales |-> s,
     confidence |-> [bpm |-> "high", key |-> "medium", genre |-> "low"]]

\* the except clause: the exception of `step` ends the call
Raise(step) ==
    /\ pc' = "done"
    /\ returned' = Append(returned, FailureResult(ErrorOf(step)))

\* line 193: main calls analyze_audio(file_path)
Call ==
    /\ pc = "main"
    /\ \E f \in Inputs : inp' = f
    /\ pc' = "load"
    /\ UNCHANGED <<calls, main_locals, key_locals, genre_locals, returned>>

\* a mutation of Load: the failure is reported and the analysis goes on
Load_goes_on ==
    /\ pc = "load"
    /\ calls' = Append(calls, "load")
    /\ \E ok \in BOOLEAN :
          IF ok THEN pc' = "detect_bpm" /\ UNCHANGED returned
          ELSE /\ pc' = "detect_bpm"
               /\ returned' = Append(returned, FailureResult(ErrorOf("load")))
    /\ UNCHANGED <<inp, main_locals, key_locals, genre_locals>>

\* line 146: librosa.load
Load ==
    /\ pc = "load"
    /\ calls' = Append(calls, "load")
    /\ \E ok \in BOOLEAN :
          IF ok THEN pc' = "detect_bpm" /\ UNCHANGED returned
          ELSE Raise("load")
    /\ UNCHANGED <<inp, main_locals, key_locals, genre_locals>>

\* line 149, detect_bpm (lines 57-60)
DetectBpm ==
    /\ pc = "detect_bpm"
    /\ calls' = Append(calls, "beat_track")
    /\ \E ok \in BOOLEAN :
          IF ok THEN /\ bpm' = PyRound(inp.tempo)
                     /\ pc' = "chroma_cqt"
                     /\ UNCHANGED returned
          ELSE Raise("beat_track") /\ UNCHANGED bpm
    /\ UNCHANGED <<inp, key, genre, scales, key_locals, genre_locals>>

\* line 152, detect_key lines 69-82
ChromaCqt ==
    /\ pc = "chroma_cqt"
    /\ calls' = Append(calls, "chroma_cqt")
    /\ \E ok \in BOOLEAN :
          IF ok THEN /\ chroma_mean' = inp.chroma
                     /\ best_correlation' = MinusOne
                     /\ detected_key' = "C major"
                     /\ i' = 0
                     /\ pc' = "key_major"
                     /\ UNCHANGED returned
          ELSE Raise("chroma_cqt") /\ UNCHANGED key_locals
    /\ UNCHANGED <<inp, main_locals, genre_locals>>

\* lines 87-91
KeyMajor ==
    /\ pc = "key_major"
    /\ LET corr_major == corrcoef(chroma_mean, np_roll(major_profile, i))
       IN  IF CorrGt(corr_major, best_correlation)
           THEN /\ best_correlation' = corr_major
                /\ detected_key' = KeyName(i, "major")
           ELSE UNCHANGED <<best_correlation, detected_key>>
    /\ pc' = "key_minor"
    /\ UNCHANGED <<inp, calls, main_locals, chroma_mean, i, genre_locals, returned>>

\* lines 94-98, and the loop's next iteration
KeyMinor ==
    /\ pc = "key_minor"
    /\ LET corr_minor == corrcoef(chroma_mean, np_roll(minor_profile, i))
       IN  IF CorrGt(corr_minor, best_correlation)
           THEN /\ best_correlation' = corr_minor
                /\ detected_key' = KeyName(i, "minor")
           ELSE UNCHANGED <<best_correlation, detected_key>>
    /\ i' = i + 1
    /\ pc' = IF i + 1 < NumRotations THEN "key_major" ELSE "key_return"
    /\ UNCHANGED <<inp, calls, main_locals, chroma_mean, genre_locals, returned>>

\* line 100 and the assignment of line 152
KeyReturn ==
    /\ pc = "key_return"
    /\ key' = detected_key
    /\ pc' = "spectral_centroid"
    /\ UNCHANGED <<inp, calls, bpm, genre, scales, key_locals, genre_locals, returned>>

\* line 155, estimate_genre line 109
SpectralCentroid ==
    /\ pc = "spectral_centroid"
    /\ calls' = Append(calls, "spectral_centroid")
    /\ \E ok \in BOOLEAN :
          IF ok THEN /\ spectral_centroid' = inp.centroid
                     /\ pc' = "spectral_rolloff"
                     /\ UNCHANGED returned
          ELSE Raise("spectral_centroid") /\ UNCHANGED spectral_centroid
    /\ UNCHANGED <<inp, main_locals, key_locals, spectral_rolloff, zero_crossing_rate>>

\* line 110
SpectralRolloff ==
    /\ pc = "spectral_rolloff"
    /\ calls' = Append(calls, "spectral_rolloff")
    /\ \E ok \in BOOLEAN :
          IF ok THEN /\ spectral_rolloff' = inp.rolloff
                     /\ pc' = "zero_crossing_rate"
                     /\ UNCHANGED returned
          ELSE Raise("spectral_rolloff") /\ UNCHANGED spectral_rolloff
    /\ UNCHANGED <<inp, main_locals, key_locals, spectral_centroid, zero_crossing_rate>>

\* line 111
ZeroCrossingRate ==
    /\ pc = "zero_crossing_rate"
    /\ calls' = Append(calls, "zero_crossing_rate")
    /\ \E ok \in BOOLEAN :
          IF ok THEN /\ zero_crossing_rate' = inp.zcr
                     /\ pc' = "genre_tempo"
                     /\ UNCHANGED returned
          ELSE Raise("zero_crossing_rate") /\ UNCHANGED zero_crossing_rate
    /\ UNCHANGED <<inp, main_locals, key_locals, spectral_centroid, spectral_rolloff>>

\* lines 114-134: the second detect_bpm and the rules; the value is assigned
\* to genre at line 155
GenreTempo ==
    /\ pc = "genre_tempo"
    /\ calls' = Append(calls, "beat_track_genre")
    /\ \E ok \in BOOLEAN :
          IF ok THEN /\ genre' = GenreRules(spectral_centroid, spectral_rolloff,
                                            zero_crossing_rate, PyRound(inp.tempo))
                     /\ pc' = "scales"
                     /\ UNCHANGED returned
          ELSE Raise("beat_track_genre") /\ UNCHANGED genre
    /\ UNCHANGED <<inp, bpm, key, scales, key_locals, genre_locals>>

\* a mutation of GetScales: the lookup uses the display form of the key
GetScales_formatted ==
    /\ pc = "scales"
    /\ scales' = get_scale_recommendations(FormatKey(key))
    /\ pc' = "format"
    /\ UNCHANGED <<inp, calls, bpm, key, genre, key_locals, genre_locals, returned>>

\* line 158
GetScales ==
    /\ pc = "scales"
    /\ scales' = get_scale_recommendations(key)
    /\ pc' = "format"
    /\ UNCHANGED <<inp, calls, bpm, key, genre, key_locals, genre_locals, returned>>

\* lines 161-178: format the key and return the result
FormatAndReturn ==
    /\ pc = "format"
    /\ IF Len(Split(key)) < 2
       THEN Raise("key_parts[1]")
       ELSE /\ returned' = Append(returned,
                                  SuccessResult(bpm, FormatKey(key), genre, scales))
            /\ pc' = "done"
    /\ UNCHANGED <<inp, calls, main_locals, key_locals, genre_locals>>

\* line 194: main prints the result and the process ends
Output ==
    /\ pc = "done"
    /\ pc' = "exit"
    /\ UNCHANGED <<inp, calls, main_locals, key_locals, genre_locals, returned>>

Next ==
    \/ Call
    \/ Load
    \/ DetectBpm
    \/ ChromaCqt
    \/ KeyMajor
    \/ KeyMinor
    \/ KeyReturn
    \/ SpectralCentroid
    \/ SpectralRolloff
    \/ ZeroCrossingRate
    \/ GenreTempo
    \/ GetScales
    \/ FormatAndReturn
    \/ Output

Spec == Init /\ [][Next]_vars

(***************************************************************************)
(* get_scale_recommendations as a function of the module, applied to       *)
(* arbitrary key strings.                                                  *)
(***************************************************************************)
QueryNames == {"C", "C#", "Db", "D", "D#", "Eb", "E", "F", "F#", "Gb", "G", "G#",
               "Ab", "A", "A#", "Bb", "B", "H", "Cb", "E#", "g", ""}
QueryModes == {" major", " minor", "  major", " Major", "major", "m", "", " minor "}
Queries == {n \o m : n \in QueryNames, m \in QueryModes}

InitLookup ==
    /\ pc = "lookup"
    /\ key \in Queries
    /\ inp = [tempo |-> 0, chroma |-> <<>>, centroid |-> 0, rolloff |-> 0, zcr |-> 0]
    /\ calls = <<>>
    /\ bpm = 0 /\ genre = "" /\ scales = <<>>
    /\ chroma_mean = <<>> /\ i = 0 /\ best_correlation = MinusOne
    /\ detected_key = ""
    /\ spectral_centroid = 0 /\ spectral_rolloff = 0 /\ zero_crossing_rate = 0
    /\ returned = <<>>

\* lines 137-139, called with any string
Lookup ==
    /\ pc = "lookup"
    /\ scales' = get_scale_recommendations(key)
    /\ pc' = "looked_up"
    /\ UNCHANGED <<inp, calls, bpm, key, genre, key_locals, genre_locals, returned>>

SpecLookup == InitLookup /\ [][Lookup]_vars

(***************************************************************************)
(* Properties.                                                             *)
(***************************************************************************)
Finished == pc \in {"done", "exit"}
Succeeded == returned /= <<>> /\ returned[1].success
Failed == returned /= <<>> /\ ~returned[1].success

\* the integer tempo of the spectral summary
SummaryTempo == PyRound(inp.tempo)

\* the number of the first rule of the decision list that matches
FirstRule ==
    LET c == inp.centroid
        r == inp.rolloff
        z == inp.zcr
        t == SummaryTempo
        matches == [k \in 1..7 |->
                      CASE k = 1 -> c > 3000 /\ z > 15
                        [] k = 2 -> c < 1500
                        [] k = 3 -> t > 160
                        [] k = 4 -> t < 90 /\ r < 3000
                        [] k = 5 -> 90 <= t /\ t <= 120
                        [] k = 6 -> 120 < t /\ t <= 140
                        [] k = 7 -> TRUE]
    IN  CHOOSE k \in 1..7 : matches[k] /\ \A j \in 1..(k - 1) : ~matches[j]

RuleLabel(k) ==
    CASE k = 1 -> IF SummaryTempo > 140 THEN "Rock" ELSE "Metal"
      [] k = 2 -> IF SummaryTempo < 100 THEN "Blues" ELSE "R&B"
      [] k = 3 -> "Punk"
      [] k = 4 -> "Jazz"
      [] k = 5 -> "Pop"
      [] k = 6 -> "Rock"
      [] k = 7 -> "Other"

GenreLabels == {"Rock", "Metal", "Blues", "R&B", "Punk", "Jazz", "Pop", "Other"}

\* C1: the genre computed for a spectral summary is one label of the closed
\* set, namely the label of the first matching rule in the order 1..7; the
\* summary (3500 Hz, 0.2, 130 BPM) is Metal, not Rock.
C1_FirstMatchingRule ==
    pc \in {"scales", "format"} =>
        /\ genre \in GenreLabels
        /\ genre = RuleLabel(FirstRule)
        /\ (inp.centroid = 3500 /\ inp.zcr = 20 /\ SummaryTempo = 130
              => genre = "Metal")

C1_Witness ==
    /\ pc = "scales"
    /\ inp.centroid = 3500 /\ inp.zcr = 20 /\ SummaryTempo = 130
    /\ genre = "Metal"

SuccessFields == {"success", "bpm", "key", "genre", "scales", "confidence"}
FailureFields == {"success", "error"}

\* C2: a call that has ended has returned exactly one result; a result is
\* returned only when the call ends; a failure result has the fields success
\* and error and no other, a success result has bpm, key, genre, scales and
\* confidence and no error; whenever a collaborator has failed the result is a
\* failure result.
C2_ResultShapes ==
    /\ Finished => Len(returned) = 1
    /\ returned /= <<>> => Finished
    /\ \A n \in 1..Len(returned) :
          IF returned[n].success
          THEN /\ DOMAIN returned[n] = SuccessFields
               /\ calls = <<"load", "beat_track", "chroma_cqt", "spectral_centroid",
                            "spectral_rolloff", "zero_crossing_rate", "beat_track_genre">>
          ELSE /\ DOMAIN returned[n] = FailureFields
               /\ returned[n].error /= ""

C2_Witness ==
    /\ pc = "done"
    /\ Failed
    /\ returned[1].error = "spectral_rolloff failed"
    /\ bpm > 0 /\ key /= ""

\* the 24 candidates in iteration order: rotation c \div 2, major before minor
Candidates == 0..(2 * NumRotations - 1)
CandName(c) == KeyName(c \div 2, IF c % 2 = 0 THEN "major" ELSE "minor")
\* the candidate's template, index 0 of the profile moved to index c \div 2
CandTemplate(c) ==
    LET p == IF c % 2 = 0 THEN major_profile ELSE minor_profile
    IN  [k \in 1..NumRotations |-> p[((k - 1 + NumRotations - (c \div 2)) % NumRotations) + 1]]
Score(c) == corrcoef(chroma_mean, CandTemplate(c))
IsMaximal(c) == \A j \in Candidates : CorrGe(Score(c), Score(j))
\* detect_key is at its return statement
KeyLoopDone == pc = "key_return"

\* C3: when the loop of detect_key has ended on defined scores, the detected
\* key is a candidate whose score (the best correlation kept) is the maximum
\* of the 24 scores, and it is the earliest such candidate in iteration order:
\* every earlier candidate scores strictly less.
C3_EarliestMaximum ==
    KeyLoopDone /\ ~IsNaN(Score(0)) =>
        \E c \in Candidates :
            /\ detected_key = CandName(c)
            /\ CorrEq(best_correlation, Score(c))
            /\ \A j \in Candidates : CorrGe(best_correlation, Score(j))
            /\ \A j \in 0..(c - 1) : ~CorrGe(Score(j), best_correlation)

\* a chroma vector of two equal notes a tritone apart (C and F#): rotations r
\* and r + 6 score the same, and the earlier of the two best is returned
C3_Witness ==
    /\ pc = "key_return"
    /\ chroma_mean = [k \in 1..NumRotations |-> IF k \in {1, 7} THEN 1 ELSE 0]
    /\ \E c1 \in Candidates :
          /\ detected_key = CandName(c1)
          /\ c1 + NumRotations \in Candidates
          /\ CorrEq(Score(c1), Score(c1 + NumRotations))
          /\ IsMaximal(c1 + NumRotations)

One == [n |-> 1, d |-> BigOf(1)]

\* chroma vector x is profile p with its index 0 moved to index r
IsShifted(x, p, r) ==
    \A j \in 0..(NumRotations - 1) : x[((j + r) % NumRotations) + 1] = p[j + 1]

\* C4: when the chroma vector is the major or minor profile shifted to pitch
\* class r, detect_key returns that pitch class and mode; the winning
\* correlation is 1 and each of the other 23 correlations is strictly smaller.
C4_ProfilesDetectThemselves ==
    KeyLoopDone =>
        \A c \in Candidates :
            IsShifted(chroma_mean, IF c % 2 = 0 THEN major_profile ELSE minor_profile,
                      c \div 2)
            => /\ detected_key = CandName(c)
               /\ CorrEq(best_correlation, One)
               /\ \A j \in Candidates \ {c} : ~CorrGe(Score(j), One)

C4_Witness ==
    /\ pc = "key_return"
    /\ IsShifted(chroma_mean, minor_profile, 9)
    /\ detected_key = "A minor"

ZeroChroma == [k \in 1..NumRotations |-> 0]

\* C5: a uniformly zero chroma vector is rejected: detect_key returns no key
\* for it and analyze_audio returns success = false.
C5_ZeroChromaRejected ==
    chroma_mean = ZeroChroma =>
        /\ pc /= "key_return"
        /\ ~Succeeded

\* C6: every successful result has a bpm strictly greater than 0.
C6_PositiveBpm ==
    Succeeded => returned[1].bpm > 0

DetectableKeys == {CandName(c) : c \in Candidates}

\* C7: a successful result shows 'X minor' as 'Xm' and 'X major' as 'X' for each
\* of the 12 pitch class names X, and the display forms of the 24 keys are
\* pairwise distinct (the display form determines the key).
C7_KeyFormatting ==
    Succeeded =>
        /\ \A p \in 1..NumRotations :
              /\ key = pitch_classes[p] \o " minor"
                   => returned[1].key = pitch_classes[p] \o "m"
              /\ key = pitch_classes[p] \o " major"
                   => returned[1].key = pitch_classes[p]
        /\ key \in DetectableKeys
        /\ \A k \in DetectableKeys : FormatKey(k) = returned[1].key => k = key
        /\ \A p \in 1..NumRotations :
              /\ FormatKey(pitch_classes[p] \o " minor") = pitch_classes[p] \o "m"
              /\ FormatKey(pitch_classes[p] \o " major") = pitch_classes[p]

C7_Witness ==
    /\ Succeeded
    /\ key = "F# minor"
    /\ returned[1].key = "F#m"

\* C8: the lookup returns the table's list for a string that is exactly a
\* table key and the default triple for every other string, never an empty
\* list; 'G major' has 4 entries led by 'G Major (Ionian)', 'H major' gets the
\* default, 'C# major' and 'Db major' have different lists.
C8_ExactLookup ==
    pc = "looked_up" =>
        /\ key \in DOMAIN SCALE_RECOMMENDATIONS => scales = SCALE_RECOMMENDATIONS[key]
        /\ key \notin DOMAIN SCALE_RECOMMENDATIONS
             => scales = <<"Major Pentatonic", "Minor Pentatonic", "Blues Scale">>
        /\ Len(scales) > 0
        /\ key = "G major" => Len(scales) = 4 /\ scales[1] = "G Major (Ionian)"
        /\ key = "H major" => Len(scales) = 3 /\ scales[1] = "Major Pentatonic"
        /\ key = "C# major" => scales /= SCALE_RECOMMENDATIONS["Db major"]
        /\ key = "Db major" => scales /= SCALE_RECOMMENDATIONS["C# major"]
        /\ key = "G  major" => scales[1] = "Major Pentatonic"

C8_Witness ==
    /\ pc = "looked_up"
    /\ key = "H major"
    /\ scales = DefaultScales

StepOrder == <<"load", "beat_track", "chroma_cqt", "spectral_centroid",
               "spectral_rolloff", "zero_crossing_rate", "beat_track_genre">>

\* C9: the collaborator calls of one run are a prefix of the fixed order (no
\* step is started twice); a failure result names the last step started, so
\* no step follows the failing one; a failed load is the only call of its
\* run; at most one result is produced, and only at the end of the call.
C9_FailureIsTerminal ==
    /\ Len(calls) <= Len(StepOrder)
    /\ calls = SubSeq(StepOrder, 1, Len(calls))
    /\ Len(returned) <= 1
    /\ returned /= <<>> => Finished
    /\ Failed =>
          /\ calls /= <<>>
          /\ returned[1].error = ErrorOf(calls[Len(calls)])
          /\ (returned[1].error = ErrorOf("load") => calls = <<"load">>)
          /\ (calls = <<"load">> => key = "" /\ genre = "" /\ chroma_mean = <<>>)

C9_Witness ==
    /\ pc = "exit"
    /\ Failed
    /\ returned[1].error = ErrorOf("load")
    /\ calls = <<"load">>

\* C10: the key detect_key returns is a key of SCALE_RECOMMENDATIONS, and the
\* scales of a successful result are the table's list for that key: never
\* the default triple, and rooted on the pitch class name of the reported
\* key.
C10_ScalesOfDetectedKey ==
    /\ KeyLoopDone => /\ detected_key \in DetectableKeys
                      /\ DetectableKeys \subseteq DOMAIN SCALE_RECOMMENDATIONS
    /\ Succeeded =>
          /\ returned[1].scales = SCALE_RECOMMENDATIONS[key]
          /\ returned[1].scales /= DefaultScales
          /\ LET root == Split(returned[1].scales[1])[1]
             IN  /\ root = Split(key)[1]
                 /\ returned[1].key \in {root, root \o "m"}

C10_Witness ==
    /\ Succeeded
    /\ returned[1].key = "A#m"
    /\ returned[1].scales[1] = "A# Minor (Aeolian)"

====
